---- MODULE Spec2Model ----
(***************************************************************************)
(* The Simulator component of CineMatch AI (src/index.tsx): one React      *)
(* component whose state is view / shots / analysis / videoUrl /           *)
(* isVideoLoading / processingStep, driven by three async functions        *)
(* (processScript, generateShotImage, generateVideo) and two buttons.      *)
(*                                                                         *)
(* Every action is one run-to-completion step of the browser event loop:   *)
(* a click handler, or the continuation of an async function from one      *)
(* await to the next.  React applies the state setters queued by a step in *)
(* the order they were queued, so a step's net effect on the state is the  *)
(* composition of its setters.                                             *)
(*                                                                         *)
(* A run is one invocation of processScript; runs are numbered 1, 2, ...   *)
(* Remote results are opaque, so a value that came from the provider is    *)
(* represented by the request that produced it (run, index).               *)
(* JavaScript array position i is position i + 1 of a TLA+ sequence.       *)
(***************************************************************************)
EXTENDS Integers, Sequences, FiniteSets, TLC

\* Bounds of the model.
MaxRuns == 2
MaxShots == 2
MaxPolls == 2

Runs == 1 .. MaxRuns
Indexes == 0 .. (MaxShots - 1)
Requests == Runs \X Indexes

VARIABLES
    view,            \* "input" | "processing" | "results"
    shots,           \* Shot[]
    analysis,        \* AnalysisResult | null
    videoUrl,        \* string | null
    isVideoLoading,  \* boolean
    processingStep,  \* number
    run,             \* number of processScript invocations so far
    awaiting,        \* whether processScript is suspended at its await
    imgPending,      \* the (run, index) whose image request is in flight
    video,           \* per run: the generateVideo call
    out              \* what the last step emitted: alerts and console.error lines

vars == << view, shots, analysis, videoUrl, isVideoLoading, processingStep,
           run, awaiting, imgPending, video, out >>

(***************************************************************************)
(* Values                                                                  *)
(***************************************************************************)
\* analysis and videoUrl hold 0 for null, else the run whose response they came from.
Null == 0

\* An optional field that is absent.
Undefined == "undefined"

\* The data: URL built from the inline data of the image response of (r, i).
DataUrl(r, i) == "data:" \o ToString(r) \o "/" \o ToString(i)

\* JavaScript truthiness of shot.imageUrl, as the render tests it.
Truthy(url) == url # Undefined /\ url # ""

\* A shot as it comes out of JSON.parse: the four schema fields (identified
\* here by the run and position they came from) and no imageUrl, no flag.
NewShot(r, i) ==
    [run |-> r, index |-> i, imageUrl |-> Undefined, isLoadingImage |-> Undefined]

\* data.shots of a response carrying n shots.
DataShots(r, n) == [k \in 1 .. n |-> NewShot(r, k - 1)]

(***************************************************************************)
(* processScript                                                           *)
(***************************************************************************)
\* What the awaited generateContent call can deliver: a rejection, or a
\* response whose text is empty, is not JSON, or is JSON whose analysis and
\* shots members are present or not.
TextResponses ==
    { resp \in [rejects : BOOLEAN,
                text : {"", "garbage", "json"},
                analysis : {"missing", "noCasting", "full"},
                hasShots : BOOLEAN,
                nShots : 0 .. MaxShots] :
        /\ resp.rejects => resp.text = ""
        /\ resp.text # "json" => resp.analysis = "missing" /\ ~resp.hasShots
        /\ ~resp.hasShots => resp.nShots = 0 }

\* The try block throws before any setter is reached: the call rejects,
\* JSON.parse throws, or data.analysis.casting.map is evaluated on a missing
\* analysis (an empty text parses as {}) or a missing casting list.
ThrowsBeforeSetters(resp) ==
    \/ resp.rejects
    \/ resp.text = "garbage"
    \/ resp.text = ""
    \/ resp.analysis # "full"

\* data.shots.forEach throws when data.shots is missing.
ThrowsAtForEach(resp) == ~resp.hasShots

\* data.shots || []
ShotsOrEmpty(r, resp) == IF resp.hasShots THEN DataShots(r, resp.nShots) ELSE << >>

\* The positions for which processScript calls generateShotImage.
FanOutSkipsFirst(resp) ==
    IF ThrowsBeforeSetters(resp) \/ ThrowsAtForEach(resp) THEN {} ELSE 1 .. (resp.nShots - 1)
FanOut(resp) ==
    IF ThrowsBeforeSetters(resp) \/ ThrowsAtForEach(resp) THEN {} ELSE 0 .. (resp.nShots - 1)

\* Whether processScript reaches its generateVideo(script) call.
CallsGenerateVideoAlways(resp) == TRUE
CallsGenerateVideo(resp) == ~ThrowsBeforeSetters(resp) /\ ~ThrowsAtForEach(resp)

\* The catch clause: setView("input"), whatever the view was set to before.
ViewAfterCatchKept(queued) == queued
ViewAfterCatchResults(queued) == "results"
ViewAfterCatch(queued) == "input"

\* The first updater of generateShotImage.
MarkLoading(prev, index) ==
    IF index + 1 \in DOMAIN prev
    THEN [prev EXCEPT ![index + 1].isLoadingImage = "true"]
    ELSE prev

\* The updaters queued by the forEach, applied in index order.
RECURSIVE MarkAll(_, _)
MarkAll(prev, idxs) ==
    IF idxs = {} THEN prev
    ELSE LET i == CHOOSE x \in idxs : \A y \in idxs : x <= y
         IN MarkAll(MarkLoading(prev, i), idxs \ {i})

\* generateVideo up to its first await: with window.aistudio.hasSelectedApiKey
\* present that is the hasSelectedApiKey call, otherwise the generateVideos
\* request.
VideoIdle == [pc |-> "none", done |-> FALSE, hasUri |-> FALSE, polls |-> 0]
VideoStarted(aistudio) == [VideoIdle EXCEPT !.pc = IF aistudio THEN "key" ELSE "gen"]

TypeOK ==
    /\ view \in {"input", "processing", "results"}
    /\ analysis \in {Null} \cup Runs
    /\ videoUrl \in {Null} \cup Runs
    /\ isVideoLoading \in BOOLEAN
    /\ processingStep \in 0 .. 2
    /\ run \in 0 .. MaxRuns
    /\ awaiting \in BOOLEAN
    /\ imgPending \subseteq Requests

Init ==
    /\ view = "input"
    /\ shots = << >>
    /\ analysis = Null
    /\ videoUrl = Null
    /\ isVideoLoading = FALSE
    /\ processingStep = 0
    /\ run = 0
    /\ awaiting = FALSE
    /\ imgPending = {}
    /\ video = [r \in Runs |-> VideoIdle]
    /\ out = {}

\* The "Analizar y Generar Storyboard" button, rendered in the input view:
\* processScript up to its await.
ClickAnalyze ==
    /\ view = "input"
    /\ run < MaxRuns
    /\ view' = "processing"
    /\ processingStep' = 1
    /\ run' = run + 1
    /\ awaiting' = TRUE
    /\ out' = {}
    /\ UNCHANGED << shots, analysis, videoUrl, isVideoLoading, imgPending, video >>

\* processScript from the await to its end, catch clause included.
ProcessScriptResume(resp, aistudio) ==
    /\ awaiting
    /\ LET early == ThrowsBeforeSetters(resp)
           threw == early \/ ThrowsAtForEach(resp)
           idxs == FanOut(resp)
           startVideo == CallsGenerateVideo(resp)
       IN  /\ analysis' = IF early THEN analysis ELSE run
           /\ shots' = IF early THEN shots ELSE MarkAll(ShotsOrEmpty(run, resp), idxs)
           /\ processingStep' = IF early THEN processingStep ELSE 2
           /\ view' = IF threw
                      THEN ViewAfterCatch(IF early THEN view ELSE "results")
                      ELSE "results"
           /\ imgPending' = imgPending \cup ({run} \X idxs)
           /\ video' = IF startVideo THEN [video EXCEPT ![run] = VideoStarted(aistudio)] ELSE video
           /\ isVideoLoading' = IF startVideo THEN TRUE ELSE isVideoLoading
           /\ awaiting' = FALSE
           /\ out' = IF threw THEN {"error:process", "alert"} ELSE {}
    /\ UNCHANGED << videoUrl, run >>

\* The "Analizar otro" button, rendered when view is "results" and analysis is set.
ClickAnalizarOtro ==
    /\ view = "results"
    /\ analysis # Null
    /\ view' = "input"
    /\ out' = {}
    /\ UNCHANGED << shots, analysis, videoUrl, isVideoLoading, processingStep, run,
                    awaiting, imgPending, video >>

(***************************************************************************)
(* generateShotImage                                                       *)
(***************************************************************************)
\* imageUrl as computed from the response: the data: URL of the first part
\* with inlineData, or "" when no part carries any.
ImageUrlOf(r, i, hasInline) == IF hasInline THEN DataUrl(r, i) ELSE ""

\* The updater of the success path.
ImageSuccessUpdateKeepsFlag(prev, index, imageUrl) ==
    IF index + 1 \in DOMAIN prev
    THEN [prev EXCEPT ![index + 1].imageUrl = imageUrl]
    ELSE prev
ImageSuccessUpdate(prev, index, imageUrl) ==
    IF index + 1 \in DOMAIN prev
    THEN [prev EXCEPT ![index + 1].imageUrl = imageUrl,
                      ![index + 1].isLoadingImage = "false"]
    ELSE prev

\* The updater of the catch clause.
ImageFailureUpdateDropsSlot(prev, index) ==
    SelectSeq(prev, LAMBDA s : s.index # index)
ImageFailureUpdate(prev, index) ==
    IF index + 1 \in DOMAIN prev
    THEN [prev EXCEPT ![index + 1].isLoadingImage = "false"]
    ELSE prev

\* The image request of (r, i) resolves and its parts are read.
ImageResolved(r, i, hasInline) ==
    /\ << r, i >> \in imgPending
    /\ shots' = ImageSuccessUpdate(shots, i, ImageUrlOf(r, i, hasInline))
    /\ imgPending' = imgPending \ {<< r, i >>}
    /\ out' = {}
    /\ UNCHANGED << view, analysis, videoUrl, isVideoLoading, processingStep, run,
                    awaiting, video >>

\* The image request of (r, i) rejects, or reading the response throws.
ImageRejected(r, i) ==
    /\ << r, i >> \in imgPending
    /\ shots' = ImageFailureUpdate(shots, i)
    /\ imgPending' = imgPending \ {<< r, i >>}
    /\ out' = {"error:image"}
    /\ UNCHANGED << view, analysis, videoUrl, isVideoLoading, processingStep, run,
                    awaiting, video >>

(***************************************************************************)
(* generateVideo                                                           *)
(***************************************************************************)
\* The operation objects generateVideos and getVideosOperation can return:
\* done or not, with or without response.generatedVideos[0].video.uri.
Operations == [done : BOOLEAN, hasUri : BOOLEAN]

\* The test of the while loop, negated: the loop is left on operation.done.
LoopExitsOnTimeout(op, polls) == op.done \/ polls >= MaxPolls
LoopExits(op, polls) == op.done

\* After the loop: the media is fetched only when the response carries a URI.
AfterLoopAlwaysFetches(op) == "fetch"
AfterLoop(op) == IF op.hasUri THEN "fetch" ELSE "returned"

\* generateVideo has returned; operation.done is kept as it was last observed.
Returned(v) == [pc |-> "returned", done |-> v.done, hasUri |-> FALSE, polls |-> 0]

\* Where generateVideo stands once an operation object has been received:
\* operation is assigned, and the loop test decides.  Inside the loop only
\* operation.done is read.  polls counts the getVideosOperation calls the
\* loop has made so far, up to MaxPolls.
Received(v, op, polled) ==
    LET n == IF polled /\ v.polls < MaxPolls THEN v.polls + 1 ELSE v.polls
        pc == IF LoopExits(op, n) THEN AfterLoop(op) ELSE "sleep"
        w == [pc |-> pc, done |-> op.done,
              hasUri |-> IF pc = "sleep" THEN FALSE ELSE op.hasUri,
              polls |-> IF pc = "sleep" THEN n ELSE 0]
    IN  IF pc = "returned" THEN Returned(w) ELSE w

\* generateVideo is over: the try block ended, normally or in the catch clause.
Finished(v) == v.pc = "returned"
InFlight(v) == v.pc \in {"key", "gen", "sleep", "poll", "fetch", "blob"}

\* The finally clause.
Finally(loading, v) == IF Finished(v) THEN FALSE ELSE loading

\* One continuation of generateVideo of run r that does not throw, taking it to v.
VideoStep(r, v) ==
    /\ video' = [video EXCEPT ![r] = v]
    /\ isVideoLoading' = Finally(isVideoLoading, v)
    /\ out' = {}
    /\ UNCHANGED << view, shots, analysis, processingStep, run, awaiting, imgPending >>

\* window.aistudio.hasSelectedApiKey() resolves: the generateVideos request is made.
VideoKeyChecked(r) ==
    /\ video[r].pc = "key"
    /\ VideoStep(r, [video[r] EXCEPT !.pc = "gen"])
    /\ UNCHANGED videoUrl

\* generateVideos resolves with an operation.
VideoGenerated(r, op) ==
    /\ video[r].pc = "gen"
    /\ VideoStep(r, Received(video[r], op, FALSE))
    /\ UNCHANGED videoUrl

\* The 5 second timer fires: getVideosOperation is called.
VideoDelayElapsed(r) ==
    /\ video[r].pc = "sleep"
    /\ VideoStep(r, [video[r] EXCEPT !.pc = "poll"])
    /\ UNCHANGED videoUrl

\* getVideosOperation resolves with an operation.
VideoPolled(r, op) ==
    /\ video[r].pc = "poll"
    /\ VideoStep(r, Received(video[r], op, TRUE))
    /\ UNCHANGED videoUrl

\* fetch resolves (whatever the HTTP status: it is not inspected): blob() is called.
VideoFetched(r) ==
    /\ video[r].pc = "fetch"
    /\ VideoStep(r, [video[r] EXCEPT !.pc = "blob"])
    /\ UNCHANGED videoUrl

\* blob() resolves: the object URL is created and stored.
VideoBlobRead(r) ==
    /\ video[r].pc = "blob"
    /\ VideoStep(r, Returned(video[r]))
    /\ videoUrl' = r

\* Any awaited call of generateVideo rejects: the catch clause logs, then finally.
VideoThrows(r) ==
    /\ InFlight(video[r])
    /\ video[r].pc # "sleep"
    /\ video' = [video EXCEPT ![r] = Returned(video[r])]
    /\ isVideoLoading' = Finally(isVideoLoading, Returned(video[r]))
    /\ out' = {"error:video"}
    /\ UNCHANGED << view, shots, analysis, videoUrl, processingStep, run, awaiting,
                    imgPending >>

(***************************************************************************)
(* The component                                                           *)
(***************************************************************************)
\* The user and the text analysis.
NextProcess ==
    \/ ClickAnalyze
    \/ \E resp \in TextResponses, aistudio \in BOOLEAN : ProcessScriptResume(resp, aistudio)
    \/ ClickAnalizarOtro

\* The image requests settle.
NextImages ==
    \/ \E r \in Runs, i \in Indexes, hasInline \in BOOLEAN : ImageResolved(r, i, hasInline)
    \/ \E r \in Runs, i \in Indexes : ImageRejected(r, i)

\* generateVideo proceeds.
NextVideo ==
    \/ \E r \in Runs : VideoKeyChecked(r)
    \/ \E r \in Runs, op \in Operations : VideoGenerated(r, op)
    \/ \E r \in Runs : VideoDelayElapsed(r)
    \/ \E r \in Runs, op \in Operations : VideoPolled(r, op)
    \/ \E r \in Runs : VideoFetched(r)
    \/ \E r \in Runs : VideoBlobRead(r)
    \/ \E r \in Runs : VideoThrows(r)

Next == NextProcess \/ NextImages \/ NextVideo

\* The component with every request it makes answered at any time, or never.
Spec == Init /\ [][Next]_vars

\* The behaviours in which the provider leaves the video requests unanswered
\* (the host page still answers hasSelectedApiKey).
SpecImages ==
    Init /\ [][NextProcess \/ NextImages \/ \E r \in Runs : VideoKeyChecked(r)]_vars

\* The behaviours in which the provider leaves the image requests unanswered.
SpecVideo == Init /\ [][NextProcess \/ NextVideo]_vars

\* The responses whose shots list, when present, has at most one element.
ShortResponses == { resp \in TextResponses : resp.nShots <= 1 }

\* The user and the text analysis, with such responses only.
NextProcessShort ==
    \/ ClickAnalyze
    \/ \E resp \in ShortResponses, aistudio \in BOOLEAN : ProcessScriptResume(resp, aistudio)
    \/ ClickAnalizarOtro

\* The behaviours in which every image and video request is answered at any
\* time, or never, and no analysis returns more than one shot.
SpecShort == Init /\ [][NextProcessShort \/ NextImages \/ NextVideo]_vars

(***************************************************************************)
(* Steps, as the properties below name them                                *)
(***************************************************************************)
\* processScript resumes from its await and runs to its end.
Settles == awaiting /\ ~awaiting'

\* ... and its try block did not reach its last statement, generateVideo(script).
SettlesFailed == Settles /\ video'[run].pc = "none"

\* ... and its catch clause did not run.
SettlesOk == Settles /\ "alert" \notin out'

\* The image request q = (run, index) settles.
ImageSettles(q) == q \in imgPending /\ q \notin imgPending'

\* generateVideo of run r ends in its catch clause.
VideoFails(r) == InFlight(video[r]) /\ Finished(video'[r]) /\ "error:video" \in out'

\* The render of a storyboard slot, and the two flags behind it.
NotYetRequested(s) == s.isLoadingImage = Undefined /\ s.imageUrl = Undefined
Loading(s) == s.isLoadingImage = "true"
Loaded(s) == Truthy(s.imageUrl)
Failed(s) == s.isLoadingImage = "false" /\ ~Truthy(s.imageUrl)

ShotStates(s) ==
    (IF NotYetRequested(s) THEN {"not-yet-requested"} ELSE {})
    \cup (IF Loading(s) THEN {"loading"} ELSE {})
    \cup (IF Loaded(s) THEN {"loaded"} ELSE {})
    \cup (IF Failed(s) THEN {"failed"} ELSE {})

(***************************************************************************)
(* C1                                                                      *)
(***************************************************************************)
\* C1: whenever processScript's try block fails after the await (it does not
\* reach generateVideo), the step starts at view = "processing", shows the
\* alert and ends at view = "input".
C1_FailureAlertsAndResets ==
    [][SettlesFailed => view = "processing" /\ "alert" \in out' /\ view' = "input"]_vars

\* A text analysis has just failed: the alert was shown, the view is "input".
C1_Witness ==
    /\ run >= 1
    /\ ~awaiting
    /\ video[run].pc = "none"
    /\ "alert" \in out
    /\ view = "input"

(***************************************************************************)
(* C2                                                                      *)
(***************************************************************************)
\* C2: while a run has not got its text analysis back, it has no image
\* request, no video call, no shots and no analysis of its own; and a step
\* issues image requests or starts a video call only for the current run and
\* only as the continuation of its text analysis in which the catch clause
\* does not run.
C2_NothingBeforeAnalysis ==
    /\ [](\A r \in Runs :
            (r > run \/ (r = run /\ awaiting)) =>
                /\ \A i \in Indexes : << r, i >> \notin imgPending
                /\ video[r].pc = "none"
                /\ analysis # r
                /\ \A k \in DOMAIN shots : shots[k].run # r)
    /\ [][\A r \in Runs :
            ((\E i \in Indexes : << r, i >> \in imgPending' \ imgPending)
               \/ (video[r].pc = "none" /\ video'[r].pc # "none"))
            => (r = run /\ SettlesOk)]_vars

\* The second run's requests are in flight, issued after its analysis came back.
C2_Witness ==
    /\ run = 2
    /\ ~awaiting
    /\ << 2, 0 >> \in imgPending
    /\ InFlight(video[2])
    /\ analysis = 2

(***************************************************************************)
(* C3                                                                      *)
(***************************************************************************)
\* The request q was made for an earlier run than the one whose shot now
\* stands at q's position.
StaleImage(q) == q[2] + 1 \in DOMAIN shots /\ shots[q[2] + 1].run > q[1]

\* generateVideo of run r is still going while a later run has started its own.
StaleVideo(r) == InFlight(video[r]) /\ \E r2 \in Runs : r2 > r /\ video[r2].pc # "none"

\* C3: the completion of an earlier run's image request leaves the shots of
\* the later run as they are, and a step of an earlier run's generateVideo
\* leaves videoUrl and isVideoLoading of the later run as they are.
C3_StaleCompletionsHarmless ==
    [][/\ \A q \in Requests : (ImageSettles(q) /\ StaleImage(q)) => shots' = shots
       /\ \A r \in Runs :
            (StaleVideo(r) /\ video'[r] # video[r]) =>
                (videoUrl' = videoUrl /\ isVideoLoading' = isVideoLoading)]_vars

(***************************************************************************)
(* C4                                                                      *)
(***************************************************************************)
\* C4: every shot of the list is in exactly one of not-yet-requested, loading,
\* loaded, failed; in particular none is loading and loaded at once.
C4_ExactlyOneShotState ==
    \A k \in DOMAIN shots :
        /\ Cardinality(ShotStates(shots[k])) = 1
        /\ ~(Loading(shots[k]) /\ Loaded(shots[k]))

\* After a restart, one shot of the second run is loaded and it has no
\* request in flight any more.
C4_Witness ==
    \E k \in DOMAIN shots :
        /\ shots[k].run = 2
        /\ Loaded(shots[k])
        /\ << 2, k - 1 >> \notin imgPending

(***************************************************************************)
(* C5                                                                      *)
(***************************************************************************)
\* C5: when the image request of a shot of the list fails, the shot's flag is
\* cleared, its slot has no image, and the step issues no image request.
C5_FailureLeavesSlotEmpty ==
    [][\A q \in Requests :
        (/\ ImageSettles(q)
         /\ "error:image" \in out'
         /\ q[2] + 1 \in DOMAIN shots
         /\ shots[q[2] + 1].run = q[1])
        => /\ shots'[q[2] + 1].isLoadingImage = "false"
           /\ ~Truthy(shots'[q[2] + 1].imageUrl)
           /\ imgPending' \subseteq imgPending]_vars

(***************************************************************************)
(* C6                                                                      *)
(***************************************************************************)
\* C6: when generateVideo fails, no alert is shown, the view stays, and
\* videoUrl is null afterwards.
C6_VideoFailureLeavesPlaceholder ==
    [][\A r \in Runs :
        VideoFails(r) => ("alert" \notin out' /\ view' = view /\ videoUrl' = Null)]_vars

(***************************************************************************)
(* C7                                                                      *)
(***************************************************************************)
\* C7: the delay is followed by a status query and by nothing else; a
\* received operation that is not done sends generateVideo back to the delay,
\* however many queries were made before; and generateVideo goes past the
\* loop (to the fetch, or to its end without a throw) only with an operation
\* it observed done.
C7_PollLoop ==
    [][\A r \in Runs :
        LET v == video[r]
            w == video'[r]
        IN  /\ (v.pc = "sleep" /\ w # v) => (w.pc = "poll" /\ w.polls = v.polls)
            /\ (v.pc \in {"gen", "poll"} /\ w # v /\ ~VideoFails(r)) =>
                  /\ w.pc \in {"sleep", "fetch", "returned"}
                  /\ w.pc = "sleep" <=> ~w.done
            /\ (v.pc = "sleep" /\ w # v) => ~v.done]_vars

\* A generateVideo that has made MaxPolls status queries is waiting to make
\* the next one.
C7_Witness ==
    \E r \in Runs : video[r].pc = "sleep" /\ video[r].polls = MaxPolls

(***************************************************************************)
(* C8                                                                      *)
(***************************************************************************)
\* C8: when the image request of index i settles, the shots list keeps its
\* length, every shot keeps the fields it came with (here its run and index),
\* every shot but the one at position i is unchanged, and the list is
\* unchanged when it has no position i.
C8_OnlySlotTouched ==
    [][\A q \in Requests :
        ImageSettles(q) =>
            /\ Len(shots') = Len(shots)
            /\ \A k \in DOMAIN shots :
                  /\ k # q[2] + 1 => shots'[k] = shots[k]
                  /\ shots'[k].run = shots[k].run
                  /\ shots'[k].index = shots[k].index
            /\ q[2] + 1 \notin DOMAIN shots => shots' = shots]_vars

\* Of two shots, one's request has settled and the other's is in flight.
C8_Witness ==
    /\ Len(shots) >= 2
    /\ \E k \in DOMAIN shots : shots[k].isLoadingImage = "false"
    /\ \E k \in DOMAIN shots :
          Loading(shots[k]) /\ << shots[k].run, k - 1 >> \in imgPending

(***************************************************************************)
(* C9                                                                      *)
(***************************************************************************)
\* C9 as stated: the image requests and the video-generation request of a run
\* are all issued before any of them completes, so once an image request of
\* the run whose shots are listed has settled, that run's generateVideos
\* request has been made.
C9_AllIssuedBeforeAnyCompletes ==
    \A k \in DOMAIN shots :
        << shots[k].run, k - 1 >> \notin imgPending => video[shots[k].run].pc # "key"

\* C9, amended: the continuation of a text analysis whose catch clause does
\* not run issues, for the N shots it stores, exactly the image requests of positions
\* 0 .. N-1 of its run, none of which existed before, and starts the one
\* generateVideo call of its run, which stands at its generateVideos request
\* or, where window.aistudio has hasSelectedApiKey, at that check; after the
\* step all of them are in flight and every shot is marked loading; no other
\* step issues an image request or starts a generateVideo call.
C9_FanOut ==
    [][/\ SettlesOk =>
            /\ imgPending' \ imgPending = {run} \X (0 .. (Len(shots') - 1))
            /\ \A i \in Indexes : << run, i >> \notin imgPending
            /\ \A k \in DOMAIN shots' :
                  shots'[k] = [NewShot(run, k - 1) EXCEPT !.isLoadingImage = "true"]
            /\ video[run].pc = "none"
            /\ video'[run].pc \in {"key", "gen"}
            /\ \A r \in Runs \ {run} : video'[r] = video[r]
       /\ ~SettlesOk =>
            /\ imgPending' \subseteq imgPending
            /\ \A r \in Runs : video[r].pc = "none" => video'[r].pc = "none"]_vars

\* A run that got MaxShots shots has all their requests and its video call
\* in flight.
C9_Witness ==
    /\ run >= 1
    /\ Len(shots) = MaxShots
    /\ \A i \in Indexes : << run, i >> \in imgPending
    /\ \A k \in DOMAIN shots : shots[k].run = run /\ Loading(shots[k])
    /\ video[run].pc \in {"key", "gen"}

(***************************************************************************)
(* C10                                                                     *)
(***************************************************************************)
\* C10: videoUrl changes only in the step in which blob() resolves for a
\* generateVideo whose operation was observed done with a URI, and it becomes
\* that call's object URL; when generateVideo goes past the loop and ends
\* without fetching, it does so without the catch clause, leaves videoUrl as
\* it is and sets isVideoLoading to false.
C10_VideoUrlOnlyAfterFetch ==
    [][/\ videoUrl' # videoUrl =>
            \E r \in Runs :
                /\ video[r].pc = "blob"
                /\ video[r].done
                /\ video[r].hasUri
                /\ Finished(video'[r])
                /\ videoUrl' = r
       /\ \A r \in Runs :
            (video[r].pc \in {"gen", "poll"} /\ Finished(video'[r]) /\ ~VideoFails(r)) =>
                /\ video'[r].done
                /\ videoUrl' = videoUrl
                /\ isVideoLoading' = FALSE
                /\ out' = {}
       /\ \A r \in Runs :
            video'[r].pc \in {"fetch", "blob"} => (video'[r].done /\ video'[r].hasUri)]_vars

\* A generateVideo has stored its video and returned.
C10_Witness ==
    \E r \in Runs : videoUrl = r /\ Finished(video[r]) /\ ~isVideoLoading

(***************************************************************************)
(* C11                                                                     *)
(***************************************************************************)
\* Some generateVideo call has started and has neither returned nor thrown.
SomeVideoInFlight == \E r \in Runs : InFlight(video[r])

\* C11: isVideoLoading is true in every state in which some generateVideo
\* call is in flight, also when a second call overlaps the first after a
\* restart; it is false only when no call is in flight.  The finally clause
\* of the call that ends first sets the flag to false while the other call is
\* still in flight, so this does not hold of the component.
C11_LoadingWhileInFlight == SomeVideoInFlight => isVideoLoading

(***************************************************************************)
(* C12                                                                     *)
(***************************************************************************)
\* C12: when processScript resumes with a response that carries the analysis
\* record (so setAnalysis is reached) and the step leaves shots empty -- the
\* shots list is empty or missing -- the view becomes "results", no image
\* request is issued, generateVideo is started and no alert is shown.  With
\* data.shots missing, data.shots.forEach throws after setShots([]) and
\* setView("results"), so the catch clause alerts and returns to the input
\* view and generateVideo is never called: this does not hold of the
\* component.
C12_MissingShotsIsZeroShots ==
    [][(Settles /\ analysis' = run /\ shots' = << >>) =>
            /\ view' = "results"
            /\ imgPending' = imgPending
            /\ InFlight(video'[run])
            /\ isVideoLoading'
            /\ "alert" \notin out']_vars

(***************************************************************************)
(* C13                                                                     *)
(***************************************************************************)
\* The "Analizar otro" click as a step: nothing but the view changes.
OnlyViewChanges ==
    UNCHANGED << shots, analysis, videoUrl, isVideoLoading, processingStep, run,
                 awaiting, imgPending, video >>

\* An image request settles, or a generateVideo call in flight resumes from
\* one of its awaits.
ImageCompletes == \E q \in Requests : ImageSettles(q)
VideoCompletes == \E r \in Runs : InFlight(video[r]) /\ video'[r] # video[r]

\* C13: the view changes only from input to processing in the step of the
\* analyze click, from processing to results in the step in which
\* processScript ends without its catch clause, from processing to input in
\* the step in which it ends in its catch clause, and from results to input
\* in the step of "Analizar otro"; a step in which an image request settles
\* or a generateVideo call resumes leaves the view as it is; and in every
\* state whose view is "results" the analysis record is non-null.
C13_ViewMoves ==
    /\ [](view = "results" => analysis # Null)
    /\ [][/\ view' # view =>
                \/ view = "input" /\ view' = "processing" /\ ~awaiting /\ awaiting'
                \/ view = "processing" /\ view' = "results" /\ SettlesOk
                \/ view = "processing" /\ view' = "input" /\ Settles /\ "alert" \in out'
                \/ view = "results" /\ view' = "input" /\ OnlyViewChanges
          /\ ImageCompletes => view' = view
          /\ VideoCompletes => view' = view]_vars

\* All four moves have been made and requests have completed on the way: an
\* earlier run reached the results view (its analysis is stored, one of its
\* image requests has settled and its generateVideo has ended), the user
\* restarted, and the latest run failed back into the input view.
C13_Witness ==
    /\ view = "input"
    /\ ~awaiting
    /\ run > 1
    /\ analysis \in Runs
    /\ analysis < run
    /\ Finished(video[analysis])
    /\ \E k \in DOMAIN shots :
        shots[k].run = analysis /\ (Loaded(shots[k]) \/ Failed(shots[k]))

====
